---- MODULE Spec2Model ----
(***************************************************************************)
(* Model of the feedback analyser: the sentiment-percentage extractor, the *)
(* structured analysis (ai_service.py), the /analyze-feedback handler      *)
(* (routes.py), the KMeans clusterer (clustering.py) and the text          *)
(* preprocessing (nlp_processor.py).                                       *)
(*                                                                         *)
(* The specifications share the module's variables:                        *)
(*   SpecExtract  _extract_sentiment_percentage applied to bounded texts   *)
(*   SpecCluster  cluster_feedback applied to bounded embeddings/records   *)
(*   SpecCount    the cluster count cluster_feedback hands to KMeans       *)
(*   SpecPreprocess  preprocess_feedback applied to bounded batches        *)
(*   Spec         get_structured_analysis and the /analyze-feedback route  *)
(***************************************************************************)
EXTENDS Integers, Sequences, FiniteSets, TLC

VARIABLES
    \* --- SpecExtract: one call of _extract_sentiment_percentage
    text,               \* the text argument (a token sequence, or NonString)
    sentiment,          \* the label argument
    percentage,         \* the returned value, NoValue before the call
    \* --- SpecCluster: one call of cluster_feedback
    embeddings,         \* sequence of points, one per embedded text
    feedback_list,      \* the records handed to cluster_feedback
    n_clusters,         \* the n_clusters argument (None or an integer)
    cluster_result,     \* the returned dict, NoValue before the call
    selected_k,         \* what _optimal_clusters returned (NoValue: not called)
    kmeans_k,           \* the count handed to _kmeans_clustering (line 34)
    \* --- SpecPreprocess: one call of preprocess_feedback (on feedback_list)
    encoder,            \* what embedding_model.encode does: "ok" | "raise"
    preprocessed,       \* the outcome of the call, NoValue before the call
    \* --- Spec: one request
    feedback_data,      \* the batch the feedback source holds
    backend,            \* what the narrative backend answers to each prompt
    pc,                 \* "start" | "done"
    entry,              \* which entry point ran: "none" | "direct" | "route" | "test"
    report,             \* what get_structured_analysis returned (NoValue if not called)
    response,           \* what the route returned (NoValue if no route ran)
    calls,              \* the calls the request made so far, in order
    \* --- SpecThemes: one call of _extract_themes_dynamically
    extracted_themes,   \* the returned mapping, NoValue before the call
    \* --- SpecSearch: one call of _optimal_clusters (on embeddings)
    silhouette,         \* per candidate k: the score of its fit, or "raise"
    \* --- SpecConcurrent: requests served at the same time
    services,           \* the module-level service objects (routes.py 19-21)
    handlers            \* per request: its inputs, its position, its locals

vars == <<text, sentiment, percentage,
          embeddings, feedback_list, n_clusters, cluster_result,
          selected_k, kmeans_k, encoder, preprocessed,
          feedback_data, backend, pc, entry, report, response, calls,
          extracted_themes, silhouette, services, handlers>>

extractVars == <<text, sentiment, percentage>>
clusterVars == <<embeddings, feedback_list, n_clusters, cluster_result,
                 selected_k, kmeans_k>>
requestVars == <<feedback_data, backend, pc, entry, report, response, calls>>
preprocessVars == <<encoder, preprocessed>>
themeVars == <<extracted_themes>>
searchVars == <<silhouette>>
concurrentVars == <<services, handlers>>

NoValue == [k |-> "none", n |-> 0]
\* an argument left at its default None, and one given as an integer
NoneArg == [k |-> "None", n |-> 0]
IntArg(x) == [k |-> "int", n |-> x]

Min(S) == CHOOSE x \in S : \A y \in S : x <= y
Max(S) == CHOOSE x \in S : \A y \in S : x >= y
MaxOf(a, b) == IF a >= b THEN a ELSE b
MinOf(a, b) == IF a <= b THEN a ELSE b

RECURSIVE SumSeq(_)
SumSeq(s) == IF s = <<>> THEN 0 ELSE Head(s) + SumSeq(Tail(s))

RECURSIVE Pow10(_)
Pow10(d) == IF d = 0 THEN 1 ELSE 10 * Pow10(d - 1)

(***************************************************************************)
(* Texts.  A text is a sequence of tokens [k, n]: a label word, a          *)
(* separator, whitespace, a newline, a percent sign, a run of digits       *)
(* (k = "num", n = its value) or a run of other characters ("pad").        *)
(***************************************************************************)
Lab(s) == [k |-> s, n |-> 0]
Sym(s) == [k |-> s, n |-> 0]
Num(v) == [k |-> "num", n |-> v]

Labels == {"Positive", "Negative", "Neutral"}

\* a value that is not a string (re.search raises TypeError on it)
NonString == <<[k |-> "nonstring", n |-> 0]>>

\* width in characters of the filler token
PadWidth == 40

RECURSIVE Digits(_)
Digits(v) == IF v < 10 THEN 1 ELSE 1 + Digits(v \div 10)

Width(tok) ==
    CASE tok.k \in {"Positive", "Negative"} -> 8
      [] tok.k = "Neutral" -> 7
      [] tok.k = "num" -> Digits(tok.n)
      [] tok.k = "is" -> 2
      [] tok.k = "pad" -> PadWidth
      [] tok.k = "Unable to generate sentiment analysis at this time." -> 51
      [] tok.k = "Error in sentiment analysis: " -> 29
      [] tok.k = "Unable to generate summary at this time." -> 40
      [] tok.k = "Error generating summary: " -> 26
      [] OTHER -> 1

\* character offset (from 0) of token i of t; Off(t, Len(t)+1) is len(text)
Off(t, i) == SumSeq([j \in 1..(i - 1) |-> Width(t[j])])

IsWs(tok) == tok.k \in {" ", "\n"}
IsNum(t, i) == i >= 1 /\ i <= Len(t) /\ t[i].k = "num"
IsSym(t, i, s) == i >= 1 /\ i <= Len(t) /\ t[i].k = s

\* \s* from position i: the first position at or after i that is no whitespace
SkipWs(t, i) == Min({j \in i..(Len(t) + 1) : j = Len(t) + 1 \/ ~IsWs(t[j])})

\* (\d+)% at position i
NumPct(t, i) == IsNum(t, i) /\ IsSym(t, i + 1, "%")

(***************************************************************************)
(* The six patterns of _extract_sentiment_percentage.  Each operator gives *)
(* the set of <<start, value>> of the matches of one pattern; re.search    *)
(* returns the leftmost.                                                   *)
(***************************************************************************)
\* sentiment \s* sep \s* (\d+)%
SepMatches(t, lab, sep) ==
    { <<i, t[SkipWs(t, SkipWs(t, i + 1) + 1)].n>> : i \in
        { i \in 1..Len(t) :
            /\ t[i].k = lab
            /\ IsSym(t, SkipWs(t, i + 1), sep)
            /\ NumPct(t, SkipWs(t, SkipWs(t, i + 1) + 1)) } }

\* (\d+)% \s* sentiment
BeforeMatches(t, lab) ==
    { <<i, t[i].n>> : i \in
        { i \in 1..Len(t) : NumPct(t, i) /\ IsSym(t, SkipWs(t, i + 2), lab) } }

\* sentiment .*? (\d+)% : the first number+% after the label on the same line
AfterPos(t, i) ==
    { j \in (i + 1)..Len(t) :
        /\ NumPct(t, j)
        /\ \A m \in (i + 1)..(j - 1) : t[m].k # "\n" }

AfterMatches(t, lab) ==
    { <<i, t[Min(AfterPos(t, i))].n>> : i \in
        { i \in 1..Len(t) : t[i].k = lab /\ AfterPos(t, i) # {} } }

PatternMatches(t, lab, p) ==
    CASE p = 1 -> SepMatches(t, lab, ":")
      [] p = 2 -> SepMatches(t, lab, "-")
      [] p = 3 -> SepMatches(t, lab, "=")
      [] p = 4 -> SepMatches(t, lab, "is")
      [] p = 5 -> BeforeMatches(t, lab)
      [] OTHER -> AfterMatches(t, lab)

Patterns == 1..6

\* group(1) of the leftmost match of pattern p
LeftmostValue(M) == (CHOOSE m \in M : \A o \in M : m[1] <= o[1])[2]

\* the window text[max(0, idx-30) : idx+50] around the first label occurrence
WindowBefore == 30
WindowAfter == 50

\* (\d+)% inside the window: a number whose % lies in the window and of
\* which at least the last digit does; digits cut off by the window's left
\* edge are lost.
WindowMatches(t, lab) ==
    LET first == Min({i \in 1..Len(t) : t[i].k = lab})
        idx == Off(t, first)
        lo == MaxOf(0, idx - WindowBefore)
        hi == idx + WindowAfter
    IN  { <<i, t[i].n % Pow10(MinOf(Digits(t[i].n), Off(t, i + 1) - lo))>> : i \in
            { i \in 1..Len(t) :
                /\ NumPct(t, i)
                /\ Off(t, i + 1) > lo
                /\ Off(t, i + 1) < hi } }

NoMatch == [found |-> FALSE, value |-> 0]

MutSearchPatterns(t, lab, p) ==
    LET M == UNION {PatternMatches(t, lab, q) : q \in Patterns}
    IN  IF M # {} THEN [found |-> TRUE, value |-> LeftmostValue(M)] ELSE NoMatch

RECURSIVE SearchPatterns(_, _, _)
\* lines 173-178: the patterns in order from p on; the first that matches
\* anywhere in the text decides
SearchPatterns(t, lab, p) ==
    IF p \notin Patterns THEN NoMatch
    ELSE LET M == PatternMatches(t, lab, p)
         IN  IF M # {} THEN [found |-> TRUE, value |-> LeftmostValue(M)]
             ELSE SearchPatterns(t, lab, p + 1)

\* lines 181-188: the search near the first occurrence of the label
SearchWindow(t, lab) ==
    IF \E i \in 1..Len(t) : t[i].k = lab
    THEN LET M == WindowMatches(t, lab)
         IN  IF M # {} THEN [found |-> TRUE, value |-> LeftmostValue(M)] ELSE NoMatch
    ELSE NoMatch

ExtractSentimentPercentage(t, lab) ==
    IF t = NonString THEN 0       \* TypeError, caught: return 0
    ELSE LET byPattern == SearchPatterns(t, lab, 1)
         IN  IF byPattern.found THEN byPattern.value
             ELSE LET nearby == SearchWindow(t, lab)
                  IN  IF nearby.found THEN nearby.value ELSE 0

(***************************************************************************)
(* SpecExtract: Init draws a text and a label, Extract applies the         *)
(* extractor.                                                              *)
(***************************************************************************)
MaxTextLen == 4

TextTokens ==
    { Lab("Positive"), Lab("Negative"), Sym(":"), Sym("is"), Sym("\n"),
      Sym("%"), Sym("pad"), Num(65), Num(250) }

\* two digit runs in a row are one run: such a sequence is not a tokenisation
WellFormed(t) == \A i \in 1..(Len(t) - 1) : ~(t[i].k = "num" /\ t[i + 1].k = "num")

RECURSIVE SeqsUpTo(_, _)
SeqsUpTo(S, n) ==
    IF n = 0 THEN {<<>>}
    ELSE LET shorter == SeqsUpTo(S, n - 1)
         IN  shorter \cup {Append(s, x) : s \in {q \in shorter : Len(q) = n - 1}, x \in S}

\* longer texts in which two patterns match at different places: a
\* percentage before the label and another after it
OrderTexts ==
    { <<Num(65), Sym("%")>> \o gap \o <<Lab(lab)>> \o mid \o <<Num(250), Sym("%")>> :
        lab \in {"Positive", "Negative"},
        gap \in {<<>>, <<Sym(" ")>>, <<Sym("pad")>>},
        mid \in {<<Sym(":")>>, <<Sym("is")>>, <<Sym("pad")>>, <<Sym("\n")>>,
                 <<Sym("pad"), Sym("\n")>>} }

Texts ==
    {t \in SeqsUpTo(TextTokens, MaxTextLen) : WellFormed(t)} \cup OrderTexts
        \cup {NonString}

IdleCluster ==
    /\ embeddings = <<>> /\ feedback_list = <<>> /\ n_clusters = NoneArg
    /\ cluster_result = NoValue
    /\ selected_k = NoValue /\ kmeans_k = NoValue

IdleRequest ==
    /\ feedback_data = <<>> /\ backend = NoValue /\ pc = "idle" /\ entry = "none"
    /\ report = NoValue /\ response = NoValue /\ calls = <<>>

IdleExtract == text = <<>> /\ sentiment = "Positive" /\ percentage = NoValue

IdlePreprocess == encoder = "ok" /\ preprocessed = NoValue

IdleThemes == extracted_themes = NoValue

IdleSearch == silhouette = NoValue

\* the service objects as the module's start-up leaves them
StartedServices ==
    [sheets_service |-> [api_key |-> "GOOGLE_API_KEY",
                         base_url |-> "https://sheets.googleapis.com/v4/spreadsheets"],
     summarizer |-> [model |-> "AI_MODEL_NAME"]]

IdleConcurrent == services = StartedServices /\ handlers = <<>>

InitExtract ==
    /\ text \in Texts
    /\ sentiment \in Labels
    /\ percentage = NoValue
    /\ IdleCluster
    /\ IdleRequest
    /\ IdlePreprocess
    /\ IdleThemes /\ IdleSearch /\ IdleConcurrent

Extract ==
    /\ percentage = NoValue
    /\ percentage' = [k |-> "int", n |-> ExtractSentimentPercentage(text, sentiment)]
    /\ UNCHANGED <<text, sentiment, clusterVars, requestVars, preprocessVars, themeVars, searchVars,
                   concurrentVars>>

NextExtract == Extract

SpecExtract == InitExtract /\ [][NextExtract]_vars

(***************************************************************************)
(* Clustering (clustering.py).  Records are named by their position in the *)
(* batch; an embedding is a point, or NaN.                                 *)
(***************************************************************************)
Pt(x) == [k |-> "pt", n |-> x]
NaN == [k |-> "nan", n |-> 0]

Range(s) == {s[i] : i \in DOMAIN s}

\* int(np.sqrt(n / 2)): the largest r with r*r <= n/2
IntSqrtHalf(n) == Max({r \in 0..n : 2 * r * r <= n})

\* the clamp of line 65
ClampOptimal(k) == MaxOf(2, MinOf(k, 8))

\* _optimal_clusters: the values it can return for the given embeddings.  In
\* the silhouette search any candidate of range(2, min(8, n // 2)) can score
\* best; when none can be scored the rule-of-thumb value stays.
OptimalClusters(emb) ==
    LET n == Len(emb)
        optimal_k == ClampOptimal(IntSqrtHalf(n))
    IN  IF 10 <= n /\ n <= 100
        THEN {optimal_k} \cup (2..(MinOf(8, n \div 2) - 1))
        ELSE {optimal_k}

MutClampFinal(k, n) == MaxOf(2, MinOf(k, n \div 3))

\* line 31: max(2, min(n_clusters, min(10, len(feedback_list) // 3)))
ClampFinal(k, n) == MaxOf(2, MinOf(k, MinOf(10, n \div 3)))

\* KMeans(n_clusters=k).fit_predict(emb) raises on NaN input and on fewer
\* samples than clusters
KMeansRaises(emb, k) == Len(emb) < k \/ NaN \in Range(emb)

Zeros(n) == [i \in 1..n |-> 0]

\* the labellings fit_predict can return: labels in 0..k-1, equal points get
\* equal labels, and as many clusters as the distinct points allow are used.
\* When all points coincide every centre is that point and the nearest-centre
\* tie goes to the lowest index, label 0.  With fewer distinct points than
\* clusters (and more than one) the library does not say which labels stay
\* unused.
KMeansFit(emb, k) ==
    LET pts == Range(emb)
        d == Cardinality(pts)
    IN  IF d = 1 THEN {Zeros(Len(emb))}
        ELSE { [i \in 1..Len(emb) |-> m[emb[i]]] :
                 m \in { f \in [pts -> 0..(k - 1)] :
                           Cardinality({f[p] : p \in pts}) = MinOf(k, d) } }

\* _kmeans_clustering: the labels, or np.zeros(len(embeddings)) on any error
KMeansClustering(emb, k) ==
    IF KMeansRaises(emb, k) THEN {Zeros(Len(emb))} ELSE KMeansFit(emb, k)

RECURSIVE Members(_, _, _, _)
\* the records fl[i], i = from..Len(labels), whose label is l, in order
Members(fl, labels, l, from) ==
    IF from > Len(labels) THEN <<>>
    ELSE IF labels[from] = l
         THEN <<fl[from]>> \o Members(fl, labels, l, from + 1)
         ELSE Members(fl, labels, l, from + 1)

\* _organize_clusters raises IndexError when labels outnumber the records
OrganizeRaises(fl, labels) == Len(labels) > Len(fl)

OrganizeClusters(fl, labels) ==
    [l \in Range(labels) |-> Members(fl, labels, l, 1)]

\* the except branch of cluster_feedback
SingleClusterFallback(fl) ==
    [clusters |-> [l \in {0} |-> fl], labels |-> Zeros(Len(fl)), n_clusters |-> 1,
     path |-> "except"]

EmptyResult ==
    [clusters |-> [l \in {} |-> <<>>], labels |-> <<>>, n_clusters |-> 0,
     path |-> "empty"]

\* cluster_feedback: every result the call can return.  path is a ghost
\* field naming the branch that produced the result.
ClusterFeedback(emb, fl, karg) ==
    IF Len(emb) = 0 THEN {EmptyResult}
    ELSE UNION { UNION {
            { IF OrganizeRaises(fl, labels)
              THEN SingleClusterFallback(fl)
              ELSE [clusters |-> OrganizeClusters(fl, labels),
                    labels |-> labels,
                    n_clusters |-> Cardinality(DOMAIN OrganizeClusters(fl, labels)),
                    path |-> IF KMeansRaises(emb, ClampFinal(k0, Len(fl)))
                             THEN "zeros" ELSE "kmeans"]
              : labels \in KMeansClustering(emb, ClampFinal(k0, Len(fl))) } }
          : k0 \in (IF karg = NoneArg THEN OptimalClusters(emb) ELSE {karg.n}) }

(***************************************************************************)
(* SpecCluster: Init draws the arguments, CallClusterFeedback applies      *)
(* cluster_feedback.                                                       *)
(***************************************************************************)
MaxRecords == 4
MaxPoint == 1
MaxClusterArg == 3

Points == {Pt(x) : x \in 0..MaxPoint} \cup {NaN}

\* larger batches, one embedding per record, whose texts repeat: the
\* embeddings take two values
RepeatedLen == 9
RepeatedEmbeddings ==
    { [i \in 1..RepeatedLen |-> IF i <= j THEN Pt(0) ELSE Pt(1)] : j \in 0..RepeatedLen }

InitCluster ==
    /\ \/ /\ embeddings \in SeqsUpTo(Points, MaxRecords)
          /\ feedback_list \in {[i \in 1..n |-> i] : n \in 0..MaxRecords}
       \/ /\ embeddings \in RepeatedEmbeddings
          /\ feedback_list = [i \in 1..RepeatedLen |-> i]
    /\ n_clusters \in {NoneArg} \cup {IntArg(x) : x \in 1..MaxClusterArg}
    /\ cluster_result = NoValue
    /\ selected_k = NoValue /\ kmeans_k = NoValue
    /\ IdleExtract
    /\ IdleRequest
    /\ IdlePreprocess
    /\ IdleThemes /\ IdleSearch /\ IdleConcurrent

CallClusterFeedback ==
    /\ cluster_result = NoValue
    /\ cluster_result' \in ClusterFeedback(embeddings, feedback_list, n_clusters)
    /\ UNCHANGED <<embeddings, feedback_list, n_clusters, selected_k, kmeans_k,
                   extractVars, requestVars, preprocessVars, themeVars, searchVars,
                   concurrentVars>>

NextCluster == CallClusterFeedback

SpecCluster == InitCluster /\ [][NextCluster]_vars

\* the number of times record position p occurs in the returned cluster lists
Occurrences(res, p) ==
    SumSeq([i \in 1..Cardinality(DOMAIN res.clusters) |->
        LET l == CHOOSE x \in DOMAIN res.clusters :
                    Cardinality({y \in DOMAIN res.clusters : y < x}) = i - 1
        IN  Cardinality({j \in 1..Len(res.clusters[l]) : res.clusters[l][j] = p})])

\* C1 (as claimed): every record position of feedback_list appears in exactly
\* one cluster list of the result, whichever branch produced the result.
C1_StrictPartition ==
    cluster_result # NoValue =>
        \A p \in 1..Len(feedback_list) : Occurrences(cluster_result, p) = 1

\* C2 (as claimed): for a batch of at least 4 records, unless the except
\* branch produced the result, the reported n_clusters is between 2 and 10.
\* Stated for the calls that hand over one embedding per record, which the
\* claim covers.
C2_ClusterCountRange ==
    (/\ cluster_result # NoValue
     /\ Len(feedback_list) >= 4
     /\ Len(embeddings) = Len(feedback_list)
     /\ cluster_result.path # "except")
        => (2 <= cluster_result.n_clusters /\ cluster_result.n_clusters <= 10)

\* C11 (as claimed): whenever KMeans or the grouping of records failed, the
\* result is exactly one cluster, keyed 0, holding every record of the
\* batch, with n_clusters = 1 and one label 0 per record.
C11_FailureGivesSingleCluster ==
    (cluster_result # NoValue /\ cluster_result.path \in {"zeros", "except"})
        => /\ cluster_result.clusters = [l \in {0} |-> feedback_list]
           /\ cluster_result.n_clusters = 1
           /\ cluster_result.labels = Zeros(Len(feedback_list))

(***************************************************************************)
(* SpecCount: the cluster count of lines 26-31 for batches of up to        *)
(* MaxSamples records, one embedding per record.  Init draws the batch     *)
(* size and the n_clusters argument, ChooseClusterCount applies lines      *)
(* 26-31.                                                                  *)
(***************************************************************************)
MaxSamples == 130
MaxCountArg == 12

InitCount ==
    /\ \E n \in 1..MaxSamples :
          /\ embeddings = [i \in 1..n |-> Pt(i)]
          /\ feedback_list = [i \in 1..n |-> i]
    /\ n_clusters \in {NoneArg} \cup {IntArg(x) : x \in 1..MaxCountArg}
    /\ cluster_result = NoValue
    /\ selected_k = NoValue /\ kmeans_k = NoValue
    /\ IdleExtract
    /\ IdleRequest
    /\ IdlePreprocess
    /\ IdleThemes /\ IdleSearch /\ IdleConcurrent

\* lines 26-31: the candidate is the caller's count, or what _optimal_clusters
\* returns; line 31 clamps it
ChooseClusterCount ==
    /\ kmeans_k = NoValue
    /\ \E k0 \in (IF n_clusters = NoneArg THEN OptimalClusters(embeddings)
                   ELSE {n_clusters.n}) :
          /\ selected_k' = IF n_clusters = NoneArg THEN IntArg(k0) ELSE NoValue
          /\ kmeans_k' = IntArg(ClampFinal(k0, Len(feedback_list)))
    /\ UNCHANGED <<embeddings, feedback_list, n_clusters, cluster_result,
                   extractVars, requestVars, preprocessVars, themeVars, searchVars,
                   concurrentVars>>

NextCount == ChooseClusterCount

SpecCount == InitCount /\ [][NextCount]_vars

\* the candidate that line 31 clamped
Candidate == IF n_clusters = NoneArg THEN selected_k.n ELSE n_clusters.n

\* max(2, min(k, 10, floor(n / 3)))
ClampedCount(k, n) == MaxOf(2, Min({k, 10, n \div 3}))

\* C12 (as claimed): the count handed to KMeans is max(2, min(k, 10,
\* floor(n/3))) for the candidate k and the batch size n, and three times
\* that count does not exceed n.
C12_ClampAveragesThree ==
    kmeans_k # NoValue =>
        /\ kmeans_k.n = ClampedCount(Candidate, Len(feedback_list))
        /\ 3 * kmeans_k.n <= Len(feedback_list)

\* C12 (amended): the count handed to KMeans is max(2, min(k, 10,
\* floor(n/3))); three times that count does not exceed n when n >= 6, and
\* the count is 2 when n < 6.
C12_ClampAveragesThreeFromSix ==
    kmeans_k # NoValue =>
        /\ kmeans_k.n = ClampedCount(Candidate, Len(feedback_list))
        /\ Len(feedback_list) >= 6 => 3 * kmeans_k.n <= Len(feedback_list)
        /\ Len(feedback_list) < 6 => kmeans_k.n = 2

\* a batch of at least 33 records and a candidate above 10: every bound of
\* the clamp is in play
C12_Witness ==
    /\ kmeans_k # NoValue
    /\ Len(feedback_list) >= 33
    /\ Candidate > 10
    /\ kmeans_k.n = 10

\* round(sqrt(n / 2)): the r with (2r - 1)^2 <= 2n < (2r + 1)^2
RoundSqrtHalf(n) == Max({r \in 0..n : (2 * r - 1) * (2 * r - 1) <= 2 * n})

\* C13 (as claimed): with no count supplied and a batch of fewer than 10 or
\* more than 100 records, _optimal_clusters returns round(sqrt(n/2)) clamped
\* to [2, 8].
C13_RoundedDefault ==
    (/\ selected_k # NoValue
     /\ (Len(embeddings) < 10 \/ Len(embeddings) > 100))
        => selected_k.n = MaxOf(2, MinOf(RoundSqrtHalf(Len(embeddings)), 8))

(***************************************************************************)
(* SpecSearch: one call of _optimal_clusters, with what fitting and        *)
(* scoring each candidate count gives.  Scores are silhouette values in    *)
(* hundredths (-100 is -1.0); an attempt can also raise (line 81).         *)
(***************************************************************************)
Score(v) == [k |-> "score", n |-> v]
Raises == [k |-> "raise", n |-> 0]

\* line 72: range(2, min(8, n_samples // 2))
SearchRange(n) == 2..(MinOf(8, n \div 2) - 1)

MutSilhouetteLoop(k, hi, score, best_k, best_score) ==
    LET scored == {j \in k..(hi - 1) : score[j].k = "score" /\ score[j].n > best_score}
    IN  IF scored = {} THEN best_k
        ELSE Max({j \in scored : \A o \in scored : score[j].n >= score[o].n})

RECURSIVE SilhouetteLoop(_, _, _, _, _)
\* lines 72-82: the candidates from k up to hi - 1, keeping the first best
SilhouetteLoop(k, hi, score, best_k, best_score) ==
    IF k >= hi THEN best_k
    ELSE IF score[k].k = "score" /\ score[k].n > best_score
    THEN SilhouetteLoop(k + 1, hi, score, k, score[k].n)
    ELSE SilhouetteLoop(k + 1, hi, score, best_k, best_score)

\* _optimal_clusters, given the outcome of each candidate's attempt
OptimalClustersScored(n, score) ==
    LET optimal_k == ClampOptimal(IntSqrtHalf(n))
    IN  IF 10 <= n /\ n <= 100
        THEN SilhouetteLoop(2, MinOf(8, n \div 2), score, optimal_k, -100)
        ELSE optimal_k

MaxSearchSamples == 18

\* batch sizes: the small ones, and three around the upper end of the search
SearchSizes == (1..MaxSearchSamples) \cup {50, 100, 101}

ScoreOutcomes == {Raises, Score(-100), Score(0), Score(50)}

InitSearch ==
    /\ \E n \in SearchSizes :
          /\ embeddings = [i \in 1..n |-> Pt(i)]
          /\ silhouette \in [(IF 10 <= n /\ n <= 100 THEN SearchRange(n) ELSE {})
                                -> ScoreOutcomes]
    /\ feedback_list = <<>> /\ n_clusters = NoneArg /\ cluster_result = NoValue
    /\ selected_k = NoValue /\ kmeans_k = NoValue
    /\ IdleExtract
    /\ IdleRequest
    /\ IdlePreprocess
    /\ IdleThemes /\ IdleConcurrent

CallOptimalClusters ==
    /\ selected_k = NoValue
    /\ selected_k' = IntArg(OptimalClustersScored(Len(embeddings), silhouette))
    /\ UNCHANGED <<embeddings, feedback_list, n_clusters, cluster_result, kmeans_k,
                   silhouette, extractVars, requestVars, preprocessVars, themeVars,
                   concurrentVars>>

NextSearch == CallOptimalClusters

SpecSearch == InitSearch /\ [][NextSearch]_vars

\* the candidates of the search that were scored above the initial -1
Scored == {k \in DOMAIN silhouette :
              silhouette[k].k = "score" /\ silhouette[k].n > -100}

\* C27: for 10 <= n <= 100 the result is a candidate of range(2, min(8,
\* n // 2)) whose score is the largest among the scored candidates, the
\* smallest such candidate on equal scores; with no candidate scored (each
\* raised or scored exactly -1) it is the default k0; and it lies in 2..8.
C27_BestScoredCandidate ==
    (/\ selected_k # NoValue
     /\ 10 <= Len(embeddings) /\ Len(embeddings) <= 100) =>
        /\ DOMAIN silhouette = SearchRange(Len(embeddings))
        /\ selected_k.n \in 2..8
        /\ IF Scored = {}
           THEN selected_k.n = ClampOptimal(IntSqrtHalf(Len(embeddings)))
           ELSE /\ selected_k.n \in Scored
                /\ \A j \in Scored :
                      /\ silhouette[selected_k.n].n >= silhouette[j].n
                      /\ silhouette[j].n = silhouette[selected_k.n].n
                            => selected_k.n <= j

\* 18 records (k0 = 3): candidates 3 and 5 tie for the best score, 2 raised
C27_Witness ==
    /\ selected_k # NoValue
    /\ Len(embeddings) = 18
    /\ silhouette[2] = Raises
    /\ silhouette[3] = Score(50) /\ silhouette[5] = Score(50)
    /\ selected_k.n = 3

\* 18 records, every attempt raised or scored -1: the default 3, not 2
C27_WitnessDefault ==
    /\ selected_k # NoValue
    /\ Len(embeddings) = 18
    /\ Scored = {} /\ silhouette[2] = Score(-100)
    /\ selected_k.n = 3

(***************************************************************************)
(* Preprocessing (nlp_processor.py).  A record is a sequence of pieces: a  *)
(* run of letters, a whitespace character, a punctuation mark or a digit;  *)
(* the string it stands for is the concatenation of its pieces.  A record  *)
(* that is not a string is NoneRecord.                                     *)
(***************************************************************************)
NoneRecord == <<"<None>">>

Space == " "
NonLetters == {"!", "7"}

RECURSIVE Str(_)
\* the string a piece sequence stands for
Str(t) == IF t = <<>> THEN "" ELSE Head(t) \o Str(Tail(t))

\* str.lower on a piece
LowerPiece(p) ==
    CASE p = "Good" -> "good"
      [] p = "The" -> "the"
      [] OTHER -> p

\* line 53: text.lower()
LowerText(t) == [i \in 1..Len(t) |-> LowerPiece(t[i])]

\* line 56: re.sub(r'[^a-z\s]', '', text)
StripNonLetters(t) == SelectSeq(t, LAMBDA p : p \notin NonLetters)

RECURSIVE SplitWords(_, _)
\* line 59: text.split(); cur is the word read so far
SplitWords(t, cur) ==
    LET done == IF cur = "" THEN <<>> ELSE <<cur>>
    IN  IF t = <<>> THEN done
        ELSE IF Head(t) = Space THEN done \o SplitWords(Tail(t), "")
        ELSE SplitWords(Tail(t), cur \o Head(t))

\* stopwords.words('english')
NltkStopWords ==
    {"i", "me", "my", "myself", "we", "our", "ours", "ourselves", "you",
     "your", "yours", "yourself", "yourselves", "he", "him", "his", "himself",
     "she", "her", "hers", "herself", "it", "its", "itself", "they", "them",
     "their", "theirs", "themselves", "what", "which", "who", "whom", "this",
     "that", "these", "those", "am", "is", "are", "was", "were", "be", "been",
     "being", "have", "has", "had", "having", "do", "does", "did", "doing",
     "a", "an", "the", "and", "but", "if", "or", "because", "as", "until",
     "while", "of", "at", "by", "for", "with", "about", "against", "between",
     "into", "through", "during", "before", "after", "above", "below", "to",
     "from", "up", "down", "in", "out", "on", "off", "over", "under", "again",
     "further", "then", "once", "here", "there", "when", "where", "why",
     "how", "all", "any", "both", "each", "few", "more", "most", "other",
     "some", "such", "no", "nor", "not", "only", "own", "same", "so", "than",
     "too", "very", "s", "t", "can", "will", "just", "don", "should", "now"}

\* line 62
KeepWord(w) == w \notin NltkStopWords /\ Len(w) > 2

\* line 65: WordNetLemmatizer.lemmatize(w), the noun lemma: the plural
\* "cans" has the lemma "can", the irregular plural "oxen" the lemma "ox"
Lemmatize(w) ==
    CASE w = "cans" -> "can"
      [] w = "oxen" -> "ox"
      [] OTHER -> w

RECURSIVE JoinWords(_)
\* line 68: ' '.join(words)
JoinWords(ws) ==
    IF ws = <<>> THEN <<>>
    ELSE IF Len(ws) = 1 THEN ws
    ELSE <<Head(ws), Space>> \o JoinWords(Tail(ws))

\* lines 59-65: the words kept from the stripped text
CleanWords(stripped) ==
    LET kept == SelectSeq(SplitWords(stripped, ""), KeepWord)
    IN  [i \in 1..Len(kept) |-> Lemmatize(kept[i])]

\* lines 52-69: the cleaned text of one record (a string)
NormalizeRecord(t) ==
    LET stripped == StripNonLetters(LowerText(t))
        cleaned_text == JoinWords(CleanWords(stripped))
    IN  IF cleaned_text = <<>> THEN stripped ELSE cleaned_text

\* embedding_model.encode: one vector per text, equal texts get equal vectors
Encode(texts) ==
    [i \in 1..Len(texts) |->
        Pt(Min({j \in 1..Len(texts) : Str(texts[j]) = Str(texts[i])}))]

\* what preprocess_feedback hands back: a normal return of the pair
\* (cleaned_texts, embeddings)
Returned(texts, emb) ==
    [kind |-> "return", cleaned_texts |-> texts, embeddings |-> emb]

\* preprocess_feedback.  text.lower() raises on a record that is not a
\* string and encode raises when the model fails; either lands in the except
\* branch of lines 78-80.
PreprocessFeedback(fl, enc) ==
    IF fl = <<>> THEN Returned(<<>>, <<>>)
    ELSE IF \E i \in 1..Len(fl) : fl[i] = NoneRecord THEN Returned(<<>>, <<>>)
    ELSE LET cleaned_texts == [i \in 1..Len(fl) |-> NormalizeRecord(fl[i])]
         IN  IF enc = "raise" THEN Returned(<<>>, <<>>)
             ELSE Returned(cleaned_texts, Encode(cleaned_texts))

(***************************************************************************)
(* SpecPreprocess: Init draws the batch and the encoder's behaviour,       *)
(* CallPreprocessFeedback applies preprocess_feedback.                     *)
(***************************************************************************)
MaxPieces == 3
MaxPreBatch == 2

Pieces == {"Good", "The", "cans", "oxen", "can", "s", Space, "!", "7"}

\* the records of a batch: any string of up to MaxPieces pieces when the
\* batch has one record, shorter ones (or a non-string) in longer batches
LongRecords == SeqsUpTo(Pieces, MaxPieces)
ShortRecords == SeqsUpTo(Pieces, 1) \cup {NoneRecord}

PreBatches ==
    {<<r>> : r \in LongRecords} \cup SeqsUpTo(ShortRecords, MaxPreBatch)

InitPreprocess ==
    /\ feedback_list \in PreBatches
    /\ encoder \in {"ok", "raise"}
    /\ preprocessed = NoValue
    /\ embeddings = <<>> /\ n_clusters = NoneArg /\ cluster_result = NoValue
    /\ selected_k = NoValue /\ kmeans_k = NoValue
    /\ IdleExtract
    /\ IdleRequest
    /\ IdleThemes /\ IdleSearch /\ IdleConcurrent

CallPreprocessFeedback ==
    /\ preprocessed = NoValue
    /\ preprocessed' = PreprocessFeedback(feedback_list, encoder)
    /\ UNCHANGED <<encoder, clusterVars, extractVars, requestVars, themeVars,
                   searchVars, concurrentVars>>

NextPreprocess == CallPreprocessFeedback

SpecPreprocess == InitPreprocess /\ [][NextPreprocess]_vars

\* the call returned one cleaned text per record
CleanedAll ==
    /\ preprocessed # NoValue
    /\ preprocessed.kind = "return"
    /\ feedback_list # <<>>
    /\ Len(preprocessed.cleaned_texts) = Len(feedback_list)

\* C15 (as claimed): normalizing a cleaned text again gives the same text.
C15_NormalizeIdempotent ==
    CleanedAll =>
        \A i \in 1..Len(feedback_list) :
            Str(NormalizeRecord(preprocessed.cleaned_texts[i]))
                = Str(preprocessed.cleaned_texts[i])

\* C16 (as claimed): a record whose cleaning leaves no tokens is returned as
\* its lower-cased input, unchanged, and no non-empty record yields an empty
\* cleaned text.
C16_EmptyCleanKeepsLowercasedInput ==
    CleanedAll =>
        \A i \in 1..Len(feedback_list) :
            /\ CleanWords(StripNonLetters(LowerText(feedback_list[i]))) = <<>>
                => Str(preprocessed.cleaned_texts[i]) = Str(LowerText(feedback_list[i]))
            /\ Str(feedback_list[i]) # ""
                => Str(preprocessed.cleaned_texts[i]) # ""

\* C17 (as claimed): when the encoder works the call returns one cleaned text
\* per record, in order: the raw record where normalizing it failed, the
\* normalized record otherwise.
C17_RecordFailureKeepsBatch ==
    (preprocessed # NoValue /\ encoder = "ok") =>
        /\ preprocessed.kind = "return"
        /\ Len(preprocessed.cleaned_texts) = Len(feedback_list)
        /\ \A i \in 1..Len(feedback_list) :
              preprocessed.cleaned_texts[i] =
                  IF feedback_list[i] = NoneRecord THEN feedback_list[i]
                  ELSE NormalizeRecord(feedback_list[i])

\* C18 (as claimed): when the encoder fails on a non-empty batch the call
\* does not return normally.
C18_EncoderFailurePropagates ==
    (preprocessed # NoValue /\ encoder = "raise" /\ feedback_list # <<>>)
        => preprocessed.kind # "return"

(***************************************************************************)
(* The narrative backend (self.model.generate_content).  An answer is a    *)
(* text, an empty text, or an exception carrying a message.                *)
(***************************************************************************)
TextAnswer(t) == [kind |-> "text", text |-> t]
EmptyAnswer == [kind |-> "empty", text |-> <<>>]
RaiseAnswer(m) == [kind |-> "raise", text |-> m]

\* summarize_feedback, for a non-empty batch
SummarizeFeedback(fl, ans) ==
    IF fl = <<>> THEN <<Sym("No feedback data to summarize.")>>
    ELSE CASE ans.kind = "text" -> ans.text
           [] ans.kind = "empty" -> <<Sym("Unable to generate summary at this time.")>>
           [] OTHER -> <<Sym("Error generating summary: ")>> \o ans.text

\* get_sentiment_breakdown
GetSentimentBreakdown(fl, ans) ==
    IF fl = <<>> THEN <<Sym("No feedback data for sentiment analysis.")>>
    ELSE CASE ans.kind = "text" -> ans.text
           [] ans.kind = "empty" ->
                <<Sym("Unable to generate sentiment analysis at this time.")>>
           [] OTHER -> <<Sym("Error in sentiment analysis: ")>> \o ans.text

(***************************************************************************)
(* Sentiment distribution (get_structured_analysis, lines 342-361).        *)
(***************************************************************************)
Dist(p, n, u) == [positive |-> p, negative |-> n, neutral |-> u]
DistSum(d) == d.positive + d.negative + d.neutral

\* lines 343-347
ExtractedDistribution(description) ==
    Dist(ExtractSentimentPercentage(description, "Positive"),
         ExtractSentimentPercentage(description, "Negative"),
         ExtractSentimentPercentage(description, "Neutral"))

\* The pairs <<v, total>>, total <= 700, for which the double product
\* v * (100 / total) falls just below the exact integer quotient, so that
\* int() truncates it to one less.
FloatTruncationLoss ==
    {
      <<97, 97>>, <<161, 161>>, <<167, 167>>, <<193, 193>>, <<97, 194>>,
      <<194, 194>>, <<117, 195>>, <<195, 195>>, <<199, 199>>, <<289, 289>>,
      <<183, 305>>, <<305, 305>>, <<161, 322>>, <<322, 322>>, <<167, 334>>,
      <<334, 334>>, <<201, 335>>, <<335, 335>>, <<337, 337>>, <<369, 369>>,
      <<371, 371>>, <<77, 385>>, <<154, 385>>, <<231, 385>>, <<308, 385>>,
      <<385, 385>>, <<193, 386>>, <<386, 386>>, <<387, 387>>, <<97, 388>>,
      <<194, 388>>, <<291, 388>>, <<388, 388>>, <<117, 390>>, <<195, 390>>,
      <<234, 390>>, <<351, 390>>, <<390, 390>>, <<199, 398>>, <<398, 398>>,
      <<539, 539>>, <<289, 578>>, <<578, 578>>, <<607, 607>>, <<183, 610>>,
      <<305, 610>>, <<366, 610>>, <<610, 610>>, <<161, 644>>, <<322, 644>>,
      <<644, 644>>, <<653, 653>>, <<167, 668>>, <<334, 668>>, <<668, 668>>,
      <<201, 670>>, <<335, 670>>, <<402, 670>>, <<603, 670>>, <<670, 670>>,
      <<337, 674>>, <<674, 674>>, <<411, 685>>, <<685, 685>>, <<687, 687>>,
      <<693, 693>>
    }

MutRescaleValue(v, total) == (v * 80) \div total

\* int(v * factor) with factor = 100 / total, in double arithmetic
RescaleValue(v, total) ==
    IF <<v, total>> \in FloatTruncationLoss
    THEN (v * 100) \div total - 1
    ELSE (v * 100) \div total

PositiveWords ==
    {"good", "great", "excellent", "amazing", "love", "perfect", "best",
     "wonderful", "fantastic", "awesome", "satisfied", "happy", "pleased"}
NegativeWords ==
    {"bad", "terrible", "awful", "hate", "worst", "horrible", "disappointing",
     "poor", "unsatisfied", "angry", "frustrated", "broken", "failed"}

RECURSIVE Flatten(_)
\* the words of ' '.join(feedback_list), in order
Flatten(fl) == IF fl = <<>> THEN <<>> ELSE Head(fl) \o Flatten(Tail(fl))

CountIn(words, S) == Cardinality({i \in 1..Len(words) : words[i] \in S})

MutGenerateFallbackSentiment(fl) ==
    LET words == Flatten(fl)
        positive_count == CountIn(words, PositiveWords)
        negative_count == CountIn(words, NegativeWords)
        total == Len(fl)
    IN  IF total = 0 THEN Dist(50, 30, 20)
        ELSE Dist((positive_count * 100) \div total,
                  (negative_count * 100) \div total,
                  MaxOf(5, 100 - ((positive_count + negative_count) * 100) \div total))

\* _generate_fallback_sentiment
GenerateFallbackSentiment(fl) ==
    LET words == Flatten(fl)
        positive_count == CountIn(words, PositiveWords)
        negative_count == CountIn(words, NegativeWords)
        total == Len(fl)
    IN  IF total = 0 THEN Dist(50, 30, 20)
        ELSE Dist(MaxOf(10, (positive_count * 100) \div total),
                  MaxOf(5, (negative_count * 100) \div total),
                  MaxOf(5, 100 - ((positive_count + negative_count) * 100) \div total))

\* The model's stand-in for the largest double (about 1.8e308): a number
\* above FloatMax stands for a run of 309 digits or more, which an int
\* holds and float() refuses.
FloatMax == 1000

\* the outcome of a step that raised
Raised == [k |-> "raised", n |-> 0]

\* line 358: v * factor converts the int v to a double and raises
\* OverflowError when v is too large for one
RescaleRaises(raw) ==
    \/ raw.positive > FloatMax
    \/ raw.negative > FloatMax
    \/ raw.neutral > FloatMax

\* which branch of lines 350-361 a raw distribution takes
DistributionPath(raw) ==
    IF DistSum(raw) = 0 THEN "fallback"
    ELSE IF DistSum(raw) < 80 \/ DistSum(raw) > 120 THEN "rescaled"
    ELSE "kept"

\* lines 349-361
NormalizeDistribution(raw, fl) ==
    IF DistSum(raw) = 0 THEN GenerateFallbackSentiment(fl)
    ELSE IF DistSum(raw) < 80 \/ DistSum(raw) > 120
         THEN IF RescaleRaises(raw) THEN Raised
              ELSE Dist(RescaleValue(raw.positive, DistSum(raw)),
                        RescaleValue(raw.negative, DistSum(raw)),
                        RescaleValue(raw.neutral, DistSum(raw)))
         ELSE raw

(***************************************************************************)
(* Themes.  A theme mapping (a dict) is a sequence of [name, count] with   *)
(* distinct names, in insertion order.  A record of the batch is the       *)
(* sequence of its lower-case words.                                       *)
(***************************************************************************)
RECURSIVE SplitOn(_, _)
\* t.split(sep): the pieces of t between the tokens sep
SplitOn(t, sep) ==
    LET at == {i \in 1..Len(t) : t[i].k = sep}
    IN  IF at = {} THEN <<t>>
        ELSE <<SubSeq(t, 1, Min(at) - 1)>> \o SplitOn(SubSeq(t, Min(at) + 1, Len(t)), sep)

\* t.strip()
Strip(t) ==
    LET solid == {i \in 1..Len(t) : ~IsWs(t[i])}
    IN  IF solid = {} THEN <<>> ELSE SubSeq(t, Min(solid), Max(solid))

Take(q, n) == SubSeq(q, 1, MinOf(n, Len(q)))

\* themes[name] = count
DictSet(d, name, count) ==
    IF \E i \in 1..Len(d) : d[i].name = name
    THEN [i \in 1..Len(d) |-> IF d[i].name = name THEN [name |-> name, count |-> count] ELSE d[i]]
    ELSE Append(d, [name |-> name, count |-> count])

RECURSIVE SortedByCount(_)
\* sorted(items, key=count, reverse=True): stable, descending
SortedByCount(d) ==
    IF d = <<>> THEN <<>>
    ELSE LET rest == SortedByCount(SubSeq(d, 1, Len(d) - 1))
             x == d[Len(d)]
             keep == Cardinality({i \in 1..Len(rest) : rest[i].count >= x.count})
         IN  SubSeq(rest, 1, keep) \o <<x>> \o SubSeq(rest, keep + 1, Len(rest))

TopThemes == 8

RECURSIVE ParseThemeLines(_, _)
\* lines 242-256: keep the lines "name: ...number..." that hold one colon
ParseThemeLines(lines, themes) ==
    IF lines = <<>> THEN themes
    ELSE LET parts == SplitOn(Head(lines), ":")
             nums == IF Len(parts) = 2
                     THEN {i \in 1..Len(parts[2]) : parts[2][i].k = "num"}
                     ELSE {}
         IN  IF Len(parts) = 2 /\ nums # {}
             THEN ParseThemeLines(Tail(lines),
                      DictSet(themes, Strip(parts[1]), parts[2][Min(nums)].n))
             ELSE ParseThemeLines(Tail(lines), themes)

\* "\n".join(feedback_list) (lines 217, 273) raises TypeError on a record
\* that is not a string
JoinRaises(fl) == \E i \in 1..Len(fl) : fl[i] = NoneRecord

\* _extract_themes_with_ai
ExtractThemesWithAI(fl, ans) ==
    IF ~JoinRaises(fl) /\ ans.kind = "text"
    THEN Take(SortedByCount(ParseThemeLines(SplitOn(Strip(ans.text), "\n"), <<>>)),
              TopThemes)
    ELSE <<>>

StopWords ==
    {"the", "and", "or", "but", "in", "on", "at", "to", "for", "of", "with", "by",
     "a", "an", "is", "are", "was", "were", "be", "been", "have", "has", "had",
     "do", "does", "did", "will", "would", "should", "could", "can", "may", "might",
     "must", "i", "you", "he", "she", "it", "we", "they", "me", "him", "her", "us",
     "them", "my", "your", "his", "our", "their", "this", "that", "these", "those",
     "very", "really", "quite", "just", "also", "too", "so", "more", "most", "much",
     "many", "some", "any", "all", "each", "every", "both", "either", "neither"}

\* the words feedback is written with in the model, and str.title() of each;
\* "(fi)" stands for the one letter U+FB01 (the ligature of f and i), whose
\* title case is the two letters "Fi"
Title(w) ==
    CASE w = "good" -> "Good"
      [] w = "fine" -> "Fine"
      [] w = "(fi)ne" -> "Fine"
      [] w = "slow" -> "Slow"
      [] w = "fast" -> "Fast"
      [] w = "nice" -> "Nice"
      [] w = "poor" -> "Poor"
      [] w = "cold" -> "Cold"
      [] w = "great" -> "Great"
      [] w = "bad" -> "Bad"
      [] w = "sound" -> "Sound"
      [] w = "the" -> "The"
      [] w = "ok" -> "Ok"
      [] OTHER -> w

RECURSIVE FirstOccurrences(_, _)
\* the distinct words, in order of first occurrence
FirstOccurrences(words, seen) ==
    IF words = <<>> THEN seen
    ELSE IF \E i \in 1..Len(seen) : seen[i] = Head(words)
         THEN FirstOccurrences(Tail(words), seen)
         ELSE FirstOccurrences(Tail(words), Append(seen, Head(words)))

\* Counter(words): [name, count] in order of first occurrence
CountWords(words) ==
    LET names == FirstOccurrences(words, <<>>)
    IN  [i \in 1..Len(names) |->
            [name |-> names[i],
             count |-> Cardinality({j \in 1..Len(words) : words[j] = names[i]})]]

RECURSIVE FormatThemes(_, _)
\* line 307: {theme.title(): count for theme, count in top_themes.items()}
FormatThemes(top, formatted) ==
    IF top = <<>> THEN formatted
    ELSE FormatThemes(Tail(top),
                      DictSet(formatted, <<Sym(Title(Head(top).name))>>, Head(top).count))

\* _extract_themes_simple_nlp
ExtractThemesSimpleNLP(fl) ==
    IF JoinRaises(fl) THEN <<>>
    ELSE LET words == SelectSeq(Flatten(fl), LAMBDA w : w \notin StopWords /\ Len(w) > 2)
         IN  FormatThemes(Take(SortedByCount(CountWords(words)), TopThemes), <<>>)

MutExtractThemesDynamically(fl, ans) ==
    LET ai_themes == ExtractThemesWithAI(fl, ans)
    IN  IF Len(ai_themes) > 1 THEN ai_themes ELSE ExtractThemesSimpleNLP(fl)

\* _extract_themes_dynamically
ExtractThemesDynamically(fl, ans) ==
    LET ai_themes == ExtractThemesWithAI(fl, ans)
    IN  IF ai_themes # <<>> THEN ai_themes ELSE ExtractThemesSimpleNLP(fl)

(***************************************************************************)
(* Suggestions (_generate_suggestions).                                    *)
(***************************************************************************)
Msg(m) == [msg |-> m, theme |-> <<>>]

ThemeWords(theme) == {theme[i].k : i \in 1..Len(theme)}

\* lines 455-464: one suggestion per theme
ThemeSuggestion(theme) ==
    IF ThemeWords(theme) \cap {"Service", "service"} # {}
    THEN [msg |-> "Prioritize improving", theme |-> theme]
    ELSE IF ThemeWords(theme) \cap {"Quality", "quality"} # {}
    THEN Msg("Implement quality control improvements")
    ELSE IF ThemeWords(theme) \cap {"Price", "price", "Cost", "cost"} # {}
    THEN Msg("Review pricing strategy and value proposition")
    ELSE [msg |-> "Address concerns", theme |-> theme]

MutSuggestionCap == 6 + 1

\* line 474: suggestions[:6]
SuggestionCap == 6

GenerateSuggestions(dist, themes, fl) ==
    LET byNegative ==
            IF dist.negative > 30
            THEN <<Msg("URGENT: Address negative feedback issues immediately"),
                   Msg("Implement customer satisfaction improvement plan")>>
            ELSE IF dist.negative > 15
            THEN <<Msg("Monitor negative feedback trends and take corrective action")>>
            ELSE <<>>
        byPositive ==
            IF dist.positive > 70
            THEN <<Msg("Leverage positive feedback for marketing testimonials"),
                   Msg("Maintain current quality standards that customers love")>>
            ELSE IF dist.positive < 40
            THEN <<Msg("Focus on improving overall customer satisfaction")>>
            ELSE <<>>
        top_themes == Take(themes, 3)
        byTheme == [i \in 1..Len(top_themes) |-> ThemeSuggestion(top_themes[i].name)]
        found == byNegative \o byPositive \o byTheme
        all == IF Len(found) < 3
               THEN found \o <<Msg("Set up regular feedback monitoring dashboard"),
                               Msg("Create systematic follow-up process with customers"),
                               Msg("Track improvement metrics over time")>>
               ELSE found
    IN  Take(all, SuggestionCap)

(***************************************************************************)
(* get_structured_analysis.                                                *)
(***************************************************************************)
Stats(total, p, n, u) ==
    [total_responses |-> total, positive_count |-> p, negative_count |-> n,
     neutral_count |-> u]

MutEmptyReport ==
    [success |-> TRUE,
     total_feedback |-> 0,
     summary |-> <<>>,
     sentiment_description |-> <<>>,
     sentiment_distribution |-> Dist(0, 0, 0),
     key_themes |-> <<>>,
     statistics |-> Stats(0, 0, 0, 0),
     suggestions |-> <<>>]

\* lines 321-335
EmptyReport ==
    [success |-> FALSE,
     total_feedback |-> 0,
     summary |-> <<Sym("No feedback data to analyze")>>,
     sentiment_description |-> <<Sym("No feedback available for analysis")>>,
     sentiment_distribution |-> Dist(0, 0, 0),
     key_themes |-> <<>>,
     statistics |-> Stats(0, 0, 0, 0),
     suggestions |-> <<Msg("No suggestions available")>>]

\* lines 389-405: the report of the except branch, e the exception's message
ErrorReport(fl, e) ==
    [success |-> FALSE,
     total_feedback |-> Len(fl),
     summary |-> <<Sym("Analysis error: "), Sym(e)>>,
     sentiment_description |-> <<Sym("Error in sentiment analysis: "), Sym(e)>>,
     sentiment_distribution |-> Dist(0, 0, 0),
     key_themes |-> <<>>,
     statistics |-> Stats(Len(fl), 0, 0, 0),
     suggestions |-> <<Msg("Analysis failed - please try again")>>]

\* int(len(feedback_list) * pct / 100)
CountOf(fl, pct) == (Len(fl) * pct) \div 100

\* lines 363-387 (the report of the try block) and 389-405 (the report of
\* the except branch, reached when line 358 raised)
ReportOf(fl, summary, sentiment_description, sentiment_distribution, key_themes) ==
    IF sentiment_distribution = Raised
    THEN ErrorReport(fl, "int too large to convert to float")
    ELSE [success |-> TRUE,
          total_feedback |-> Len(fl),
          summary |-> summary,
          sentiment_description |-> sentiment_description,
          sentiment_distribution |-> sentiment_distribution,
          key_themes |-> key_themes,
          statistics |-> Stats(Len(fl),
                               CountOf(fl, sentiment_distribution.positive),
                               CountOf(fl, sentiment_distribution.negative),
                               CountOf(fl, sentiment_distribution.neutral)),
          suggestions |-> GenerateSuggestions(sentiment_distribution, key_themes, fl)]

\* lines 337-361: the values the try block computes before the report
AnalysisOf(fl, ans, sentiment_description) ==
    ReportOf(fl,
             SummarizeFeedback(fl, ans.summary),
             sentiment_description,
             NormalizeDistribution(ExtractedDistribution(sentiment_description), fl),
             ExtractThemesDynamically(fl, ans.themes))

ZeroTotalsOnError(r) ==
    IF r.success THEN r
    ELSE [r EXCEPT !.total_feedback = 0, !.statistics = Stats(0, 0, 0, 0)]

MutGetStructuredAnalysis(fl, ans) ==
    IF fl = <<>> THEN EmptyReport
    ELSE ZeroTotalsOnError(AnalysisOf(fl, ans, GetSentimentBreakdown(fl, ans.sentiment)))

\* lines 316-405.  ans holds the backend's answers to the three prompts of
\* the request: summary, sentiment, themes.  The rescaling of line 358 is the
\* one step of the try block that can raise on a list of strings.
GetStructuredAnalysis(fl, ans) ==
    IF fl = <<>> THEN EmptyReport
    ELSE AnalysisOf(fl, ans, GetSentimentBreakdown(fl, ans.sentiment))

(***************************************************************************)
(* The calls a request makes, in order.  "generate_content" is one call of *)
(* the narrative backend (self.model.generate_content); the other entries  *)
(* are the methods of the services.                                        *)
(***************************************************************************)
\* _extract_themes_dynamically: the backend-based extractor first, the
\* word-frequency one only after an empty mapping (lines 203-208)
ThemeCalls(fl, ans) ==
    <<"_extract_themes_dynamically", "_extract_themes_with_ai">>
        \o (IF JoinRaises(fl) THEN <<>> ELSE <<"generate_content">>)
        \o (IF ExtractThemesWithAI(fl, ans) = <<>>
            THEN <<"_extract_themes_simple_nlp">> ELSE <<>>)

\* lines 349-367, from the raw distribution on: the lexical fallback when
\* nothing was extracted, then themes and suggestions unless line 358 raised
CallsAfterExtraction(raw, fl, ans) ==
    (IF DistributionPath(raw) = "fallback"
     THEN <<"_generate_fallback_sentiment">> ELSE <<>>)
        \o (IF DistributionPath(raw) = "rescaled" /\ RescaleRaises(raw) THEN <<>>
            ELSE ThemeCalls(fl, ans.themes) \o <<"_generate_suggestions">>)

MutAnalysisCalls(fl, ans) ==
    <<"summarize_feedback">>
        \o (IF fl = <<>> THEN <<>>
            ELSE <<"generate_content",
                   "get_sentiment_breakdown", "generate_content",
                   "_extract_sentiment_percentage", "_extract_sentiment_percentage",
                   "_extract_sentiment_percentage">>
                    \o CallsAfterExtraction(
                           ExtractedDistribution(GetSentimentBreakdown(fl, ans.sentiment)),
                           fl, ans))

\* get_structured_analysis: nothing for an empty batch (lines 320-335)
AnalysisCalls(fl, ans) ==
    IF fl = <<>> THEN <<>>
    ELSE <<"summarize_feedback", "generate_content",
           "get_sentiment_breakdown", "generate_content",
           "_extract_sentiment_percentage", "_extract_sentiment_percentage",
           "_extract_sentiment_percentage">>
            \o CallsAfterExtraction(
                   ExtractedDistribution(GetSentimentBreakdown(fl, ans.sentiment)),
                   fl, ans)

(***************************************************************************)
(* The /analyze-feedback handler (routes.py) and the feedback source       *)
(* (sheets_service.py).                                                    *)
(***************************************************************************)
\* what sheets_service.get_feedback_data does for a request: it returns the
\* batch, or raises ValueError (access denied, not found, other HTTP error,
\* any other failure)
FetchOutcomes == {"ok", "denied", "notfound", "http", "other"}

\* a request: a field the handler does not get to read is left at its default
Requests ==
    { r \in [is_json : BOOLEAN, spreadsheet_id : {"", "sheet"}, fetch : FetchOutcomes] :
        /\ ~r.is_json => r.spreadsheet_id = ""
        /\ r.spreadsheet_id = "" => r.fetch = "ok" }

ErrorResponse(req, status, error) ==
    [status |-> status, error |-> error, request |-> req, body |-> NoValue]

\* lines 94-135: the 200 response built from the analysis results
Served(req, analysis_results, made) ==
    [response |-> [status |-> 200, error |-> "", request |-> req,
                   body |-> analysis_results],
     report |-> analysis_results,
     calls |-> made]

MutAnalyzeFeedback(req, data, ans) ==
    IF ~req.is_json
    THEN [response |-> ErrorResponse(req, 400, "Content-Type must be application/json"),
          report |-> NoValue, calls |-> <<>>]
    ELSE IF req.spreadsheet_id = ""
    THEN [response |-> ErrorResponse(req, 400, "spreadsheet_id is required"),
          report |-> NoValue, calls |-> <<>>]
    ELSE IF data = <<>>
    THEN [response |-> ErrorResponse(req, 400,
                          "No feedback data found in the specified sheet/range"),
          report |-> NoValue, calls |-> <<"get_feedback_data">>]
    ELSE Served(req, GetStructuredAnalysis(data, ans),
                <<"get_feedback_data", "get_structured_analysis">>
                    \o AnalysisCalls(data, ans))

\* analyze_feedback: the response, and the report of the analysis it ran
\* (NoValue when it ran none)
AnalyzeFeedback(req, data, ans) ==
    IF ~req.is_json
    THEN [response |-> ErrorResponse(req, 400, "Content-Type must be application/json"),
          report |-> NoValue, calls |-> <<>>]
    ELSE IF req.spreadsheet_id = ""
    THEN [response |-> ErrorResponse(req, 400, "spreadsheet_id is required"),
          report |-> NoValue, calls |-> <<>>]
    ELSE IF req.fetch # "ok"
    THEN [response |-> ErrorResponse(req, 400, "validation_error"),
          report |-> NoValue, calls |-> <<"get_feedback_data">>]
    ELSE IF data = <<>>
    THEN [response |-> ErrorResponse(req, 400,
                          "No feedback data found in the specified sheet/range"),
          report |-> NoValue, calls |-> <<"get_feedback_data">>]
    ELSE Served(req, GetStructuredAnalysis(data, ans),
                <<"get_feedback_data", "get_structured_analysis">>
                    \o AnalysisCalls(data, ans))

(***************************************************************************)
(* Spec: Init draws the batch the source holds and the backend's answers;  *)
(* a request is served either by the route or by calling                   *)
(* get_structured_analysis directly (as the tests do).                     *)
(***************************************************************************)
MaxBatch == 2

\* feedback records: sequences of lower-case words
Records == {<<"good">>, <<"bad", "sound">>, <<"good", "great">>}

Batches == SeqsUpTo(Records, MaxBatch)

\* the percentages a backend text can state for a label (NoValue: none)
Percentages == {Num(40), Num(77), Num(231)}

SentimentLine(lab, v) ==
    IF v = NoValue THEN <<>>
    ELSE <<Lab(lab), Sym(":"), Sym(" "), v, Sym("%"), Sym("\n")>>

\* a percentage too long for a double
HugePercentage == Num(FloatMax + 1)

SentimentTexts ==
    { SentimentLine("Positive", p) \o SentimentLine("Negative", n)
        \o SentimentLine("Neutral", u) \o <<Sym("pad")>>
      : p \in Percentages \cup {NoValue, HugePercentage},
        n \in Percentages \cup {NoValue},
        u \in Percentages \cup {NoValue} }

ExceptionMessages == {<<Sym("pad")>>}

ThemeLine(name, v) == <<Sym(name), Sym(":"), Sym(" "), Num(v), Sym("\n")>>

ThemeTexts ==
    { ThemeLine("Service", 8) \o ThemeLine("Quality", 6) \o ThemeLine("Price", 4)
        \o ThemeLine("Staff", 3),
      <<Sym("pad"), Sym("\n"), Sym("Staff"), Sym(":"), Sym("pad")>> }

AnswersOf(T) ==
    {TextAnswer(t) : t \in T} \cup {EmptyAnswer}
        \cup {RaiseAnswer(m) : m \in ExceptionMessages}

BackendAnswers ==
    [summary : AnswersOf({<<Sym("pad")>>}),
     sentiment : AnswersOf(SentimentTexts),
     themes : AnswersOf(ThemeTexts)]

Init ==
    /\ feedback_data \in Batches
    /\ backend \in BackendAnswers
    /\ pc = "start"
    /\ entry = "none"
    /\ report = NoValue
    /\ response = NoValue
    /\ calls = <<>>
    /\ IdleExtract
    /\ IdleCluster
    /\ IdlePreprocess
    /\ IdleThemes /\ IdleSearch /\ IdleConcurrent

\* a caller invokes get_structured_analysis on the batch
DirectAnalysis ==
    /\ pc = "start"
    /\ pc' = "done"
    /\ entry' = "direct"
    /\ report' = GetStructuredAnalysis(feedback_data, backend)
    /\ calls' = <<"get_structured_analysis">> \o AnalysisCalls(feedback_data, backend)
    /\ UNCHANGED <<response, feedback_data, backend, extractVars, clusterVars,
                   preprocessVars, themeVars, searchVars,
                   concurrentVars>>

\* the dashboard posts to /analyze-feedback
RouteAnalyzeFeedback ==
    /\ pc = "start"
    /\ \E req \in Requests :
        \E served \in {AnalyzeFeedback(req, feedback_data, backend)} :
            /\ response' = served.response
            /\ report' = served.report
            /\ calls' = served.calls
    /\ pc' = "done"
    /\ entry' = "route"
    /\ UNCHANGED <<feedback_data, backend, extractVars, clusterVars, preprocessVars, themeVars, searchVars,
                   concurrentVars>>

Next == DirectAnalysis \/ RouteAnalyzeFeedback

Spec == Init /\ [][Next]_vars

(***************************************************************************)
(* SpecThemes: one call of _extract_themes_dynamically on a batch, with    *)
(* the backend's answer to the theme prompt.                               *)
(***************************************************************************)
\* records for the word-frequency extractor: ten distinct words, a stop
\* word and a short word, a word written both with and without the
\* ligature, and a record that is not a string
ThemeRecords ==
    {<<"good", "great", "bad", "sound", "fine", "slow", "fast", "nice", "poor", "cold",
       "good", "cold", "cold">>,
     <<"the", "ok", "good">>,
     <<"(fi)ne", "good", "good", "(fi)ne", "(fi)ne">>,
     <<"fine">>,
     NoneRecord}

MaxThemeBatch == 2

ThemeBatches == SeqsUpTo(ThemeRecords, MaxThemeBatch)

\* answers to the theme prompt: the format the prompt asks for; unsorted
\* lines with a repeated name; nine names; equal counts; a zero count; an
\* empty name; a line with two colons; a colon without a number after it; a
\* number only before the colon; a two-colon line followed by a good line
ThemeAnswerTexts ==
    { ThemeLine("Service", 8) \o ThemeLine("Quality", 6) \o ThemeLine("Price", 4)
        \o ThemeLine("Staff", 3),
      ThemeLine("Price", 4) \o ThemeLine("Service", 8) \o ThemeLine("Price", 6),
      ThemeLine("A", 1) \o ThemeLine("B", 2) \o ThemeLine("C", 3) \o ThemeLine("D", 4)
        \o ThemeLine("E", 5) \o ThemeLine("F", 6) \o ThemeLine("G", 7)
        \o ThemeLine("H", 8) \o ThemeLine("I", 9),
      ThemeLine("A", 4) \o ThemeLine("B", 4) \o ThemeLine("C", 9),
      ThemeLine("Service", 0),
      <<Sym(":"), Sym(" "), Num(5)>>,
      <<Sym("Staff"), Sym(":"), Sym(" "), Num(3), Sym(":"), Sym("pad")>>,
      <<Sym("pad"), Sym("\n"), Sym("Staff"), Sym(":"), Sym("pad")>>,
      <<Sym("Top"), Sym(" "), Num(5), Sym(":"), Sym(" "), Sym("pad")>>,
      <<Sym("Staff"), Sym(":"), Num(3), Sym(":"), Sym("\n")>> \o ThemeLine("Price", 4),
      <<Sym(" "), Sym("\n")>> }

InitThemes ==
    /\ feedback_data \in ThemeBatches
    /\ backend \in [summary : {EmptyAnswer}, sentiment : {EmptyAnswer},
                    themes : AnswersOf(ThemeAnswerTexts)]
    /\ pc = "start"
    /\ entry = "none"
    /\ report = NoValue
    /\ response = NoValue
    /\ calls = <<>>
    /\ extracted_themes = NoValue
    /\ IdleExtract
    /\ IdleCluster
    /\ IdlePreprocess
    /\ IdleSearch /\ IdleConcurrent

\* line 364: key_themes = self._extract_themes_dynamically(feedback_list)
CallExtractThemes ==
    /\ pc = "start"
    /\ pc' = "done"
    /\ extracted_themes' = ExtractThemesDynamically(feedback_data, backend.themes)
    /\ calls' = ThemeCalls(feedback_data, backend.themes)
    /\ UNCHANGED <<feedback_data, backend, entry, report, response, extractVars,
                   clusterVars, preprocessVars, searchVars, concurrentVars>>

NextThemes == CallExtractThemes

SpecThemes == InitThemes /\ [][NextThemes]_vars

(***************************************************************************)
(* SpecConcurrent: several /analyze-feedback requests served at the same   *)
(* time by the threads of one process.  The handlers share the module-     *)
(* level objects sheets_service and summarizer; everything else a handler  *)
(* uses is a local of analyze_feedback or of get_structured_analysis.  A   *)
(* handler can be overtaken by another one between any two of its calls.   *)
(***************************************************************************)
MaxRequests == 2

RequestIds == 1..MaxRequests

\* the batches the requests' spreadsheets hold
ConcurrentSheets == {<<<<"good">>>>, <<<<"bad", "sound">>, <<"good", "great">>>>}

\* the backend's answers to the prompts of one request
ConcurrentAnswers ==
    [summary : {TextAnswer(<<Sym("pad")>>)},
     sentiment : {EmptyAnswer,
                  TextAnswer(SentimentLine("Positive", Num(40))
                                 \o SentimentLine("Negative", Num(77))),
                  TextAnswer(SentimentLine("Positive", HugePercentage))},
     themes : {EmptyAnswer, TextAnswer(ThemeLine("Service", 8))}]

\* a handler that has not started: its locals are unset
NewHandler(sheet, ans) ==
    [pc |-> "start", sheet |-> sheet, answers |-> ans,
     feedback_data |-> NoValue, summary |-> NoValue,
     sentiment_description |-> NoValue, sentiment_distribution |-> NoValue,
     key_themes |-> NoValue, report |-> NoValue]

InitConcurrent ==
    /\ services = StartedServices
    /\ \E sheets \in [RequestIds -> ConcurrentSheets],
          answers \in [RequestIds -> ConcurrentAnswers] :
            handlers = [i \in RequestIds |-> NewHandler(sheets[i], answers[i])]
    /\ IdleExtract
    /\ IdleCluster
    /\ IdlePreprocess
    /\ IdleRequest
    /\ IdleThemes /\ IdleSearch

MutFeedbackArgument(hs, i) ==
    LET fetched == {j \in DOMAIN hs : j # i /\ hs[j].pc # "start"}
    IN  IF fetched = {} THEN hs[i].feedback_data
        ELSE hs[CHOOSE j \in fetched : TRUE].feedback_data

\* routes.py line 94: the handler passes its own local feedback_data
FeedbackArgument(hs, i) == hs[i].feedback_data

\* routes.py line 79: the fetch, through the shared sheets_service
Fetch(i) ==
    /\ handlers[i].pc = "start"
    /\ services.sheets_service.api_key # ""
    /\ handlers' = [handlers EXCEPT ![i].feedback_data = handlers[i].sheet,
                                    ![i].pc = "fetched"]
    /\ UNCHANGED <<services, extractVars, clusterVars, preprocessVars, requestVars,
                   themeVars, searchVars>>

\* ai_service.py line 339, through the shared summarizer
Summarize(i) ==
    /\ handlers[i].pc = "fetched"
    /\ handlers' = [handlers EXCEPT
            ![i].summary = SummarizeFeedback(FeedbackArgument(handlers, i),
                                             handlers[i].answers.summary),
            ![i].pc = "summarized"]
    /\ UNCHANGED <<services, extractVars, clusterVars, preprocessVars, requestVars,
                   themeVars, searchVars>>

\* lines 340-361
EstimateSentiment(i) ==
    /\ handlers[i].pc = "summarized"
    /\ \E description \in {GetSentimentBreakdown(FeedbackArgument(handlers, i),
                                                  handlers[i].answers.sentiment)} :
         handlers' = [handlers EXCEPT
            ![i].sentiment_description = description,
            ![i].sentiment_distribution =
                NormalizeDistribution(ExtractedDistribution(description),
                                      FeedbackArgument(handlers, i)),
            ![i].pc = "estimated"]
    /\ UNCHANGED <<services, extractVars, clusterVars, preprocessVars, requestVars,
                   themeVars, searchVars>>

\* line 364, skipped when line 358 raised
ExtractThemes(i) ==
    /\ handlers[i].pc = "estimated"
    /\ handlers[i].sentiment_distribution # Raised
    /\ handlers' = [handlers EXCEPT
            ![i].key_themes = ExtractThemesDynamically(FeedbackArgument(handlers, i),
                                                       handlers[i].answers.themes),
            ![i].pc = "themed"]
    /\ UNCHANGED <<services, extractVars, clusterVars, preprocessVars, requestVars,
                   themeVars, searchVars>>

\* lines 367-387, or 389-405 after the exception of line 358
Respond(i) ==
    /\ \/ handlers[i].pc = "themed"
       \/ handlers[i].pc = "estimated" /\ handlers[i].sentiment_distribution = Raised
    /\ handlers' = [handlers EXCEPT
            ![i].report = ReportOf(FeedbackArgument(handlers, i),
                                   handlers[i].summary,
                                   handlers[i].sentiment_description,
                                   handlers[i].sentiment_distribution,
                                   handlers[i].key_themes),
            ![i].pc = "done"]
    /\ UNCHANGED <<services, extractVars, clusterVars, preprocessVars, requestVars,
                   themeVars, searchVars>>

NextConcurrent ==
    \E i \in RequestIds :
        Fetch(i) \/ Summarize(i) \/ EstimateSentiment(i) \/ ExtractThemes(i) \/ Respond(i)

SpecConcurrent == InitConcurrent /\ [][NextConcurrent]_vars

(***************************************************************************)
(* Properties of the report and of the route.                              *)
(***************************************************************************)
Analysed == pc = "done" /\ report # NoValue
AnalysedBatch == Analysed /\ feedback_data # <<>>

IsErrorText(t) ==
    t # <<>> /\ Head(t).k \in {"Error generating summary: ", "Error in sentiment analysis: "}

\* C3 (as claimed): a report marked success never carries the error text of
\* a failed stage.
C3_NoErrorTextOnSuccess ==
    (Analysed /\ report.success) =>
        (~IsErrorText(report.summary) /\ ~IsErrorText(report.sentiment_description))

\* the fixed empty report: success false, all counts zero, zero distribution,
\* a non-empty placeholder summary
IsFixedEmptyReport(r) ==
    /\ r # NoValue
    /\ r.success = FALSE
    /\ r.total_feedback = 0
    /\ r.statistics = Stats(0, 0, 0, 0)
    /\ r.sentiment_distribution = Dist(0, 0, 0)
    /\ r.summary # <<>>

\* the route fetched the batch: the request was well-formed and the source answered
Fetched ==
    /\ pc = "done" /\ entry = "route"
    /\ response.request.is_json
    /\ response.request.spreadsheet_id # ""
    /\ response.request.fetch = "ok"

\* C4 (as claimed): for an empty batch the caller receives the fixed empty
\* report, at the analysis entry point and from the /analyze-feedback request
\* that fetched an empty batch.
C4_EmptyReportEverywhere ==
    /\ (pc = "done" /\ entry = "direct" /\ feedback_data = <<>>)
          => IsFixedEmptyReport(report)
    /\ (Fetched /\ feedback_data = <<>>) => IsFixedEmptyReport(response.body)

\* C4 (amended): at the analysis entry point an empty batch yields the fixed
\* empty report; the /analyze-feedback request that fetched an empty batch
\* runs no analysis and answers 400 with an error message.
C4_EmptyBatch ==
    /\ (pc = "done" /\ entry = "direct" /\ feedback_data = <<>>)
          => IsFixedEmptyReport(report)
    /\ (Fetched /\ feedback_data = <<>>) =>
          /\ report = NoValue
          /\ response.body = NoValue
          /\ response.status = 400
          /\ response.error = "No feedback data found in the specified sheet/range"

C4_Witness ==
    pc = "done" /\ entry = "direct" /\ feedback_data = <<>> /\ report.success = FALSE

AllAnswersEmpty ==
    /\ backend.summary = EmptyAnswer
    /\ backend.sentiment = EmptyAnswer
    /\ backend.themes = EmptyAnswer

\* the deterministic summary that classifies the tone of the cluster narratives
IsToneFallback(t) ==
    t # <<>> /\ Head(t).k \in {"generally positive", "mixed with significant concerns",
                               "varied"}

\* C5 (as claimed): when the backend answers every prompt with empty text,
\* the report carries one templated narrative per cluster and the
\* tone-classification summary.
C5_EmptyBackendFallbacks ==
    (AnalysedBatch /\ AllAnswersEmpty) =>
        /\ "cluster_info" \in DOMAIN report
        /\ IsToneFallback(report.summary)

C7_PercentageRange ==
    percentage # NoValue => (0 <= percentage.n /\ percentage.n <= 100)

\* C8 (as claimed): on the success path the distribution holds three
\* non-negative integers whose sum lies in [80, 120].
C8_DistributionSum ==
    (AnalysedBatch /\ report.success) =>
        /\ report.sentiment_distribution.positive >= 0
        /\ report.sentiment_distribution.negative >= 0
        /\ report.sentiment_distribution.neutral >= 0
        /\ DistSum(report.sentiment_distribution) >= 80
        /\ DistSum(report.sentiment_distribution) <= 120

\* the three values extracted from the sentiment description of a report of
\* the success path (the error report carries the exception's text instead)
Raw == ExtractedDistribution(report.sentiment_description)

RescaledFrom(raw) == DistSum(raw) # 0 /\ (DistSum(raw) < 80 \/ DistSum(raw) > 120)
KeptFrom(raw) == DistSum(raw) >= 80 /\ DistSum(raw) <= 120

\* d is v * 100 / total truncated, or one less where the quotient is exact
TruncatedShare(d, v, total) ==
    /\ d >= 0
    /\ d * total <= v * 100
    /\ v * 100 <= (d + 1) * total

C10_FallbackFloors ==
    (AnalysedBatch /\ report.success /\ DistSum(Raw) = 0) =>
        /\ report.sentiment_distribution = GenerateFallbackSentiment(feedback_data)
        /\ report.sentiment_distribution.positive >= 10
        /\ report.sentiment_distribution.negative >= 5

C10_Witness ==
    /\ AnalysedBatch /\ report.success /\ DistSum(Raw) = 0
    /\ report.sentiment_distribution = Dist(10, 100, 5)

\* C19: every report carries the size of the batch it was made for, both as
\* total_feedback and as statistics.total_responses: on the empty-report
\* path, the success path and the internal-error path.
C19_TotalsEqualBatchSize ==
    Analysed =>
        /\ report.total_feedback = Len(feedback_data)
        /\ report.statistics.total_responses = Len(feedback_data)

\* the internal-error path ran on a batch of two records
C19_Witness ==
    /\ AnalysedBatch /\ ~report.success
    /\ Head(report.summary).k = "Analysis error: "
    /\ report.statistics.total_responses = 2

\* C20 (as claimed): the report of a non-empty batch carries a cluster_info
\* field and, in its statistics, clusters_found and themes_identified next to
\* the four counts.
C20_ClusterFieldsPresent ==
    AnalysedBatch =>
        /\ {"total_responses", "positive_count", "negative_count", "neutral_count",
             "clusters_found", "themes_identified"} \subseteq DOMAIN report.statistics
        /\ "cluster_info" \in DOMAIN report

\* the calls of kind name among the calls the request made
CallCount(name) == Cardinality({i \in 1..Len(calls) : calls[i] = name})

\* C21 (as claimed): for an empty batch the report's theme mapping and its
\* suggestion sequence are both empty, and get_structured_analysis returned
\* without calling any stage.
C21_EmptyBatchAllEmpty ==
    (Analysed /\ feedback_data = <<>>) =>
        /\ report.key_themes = <<>>
        /\ report.suggestions = <<>>
        /\ calls = <<"get_structured_analysis">>

\* C21 (amended): for an empty batch the report's theme mapping is empty,
\* its suggestion sequence holds the one placeholder "No suggestions
\* available", and get_structured_analysis returned without calling any
\* stage (no backend call, no theme extraction, no suggestion generation).
C21_EmptyBatchPlaceholder ==
    (Analysed /\ feedback_data = <<>>) =>
        /\ report.key_themes = <<>>
        /\ report.suggestions = <<Msg("No suggestions available")>>
        /\ calls = <<"get_structured_analysis">>

C21_Witness ==
    /\ Analysed /\ feedback_data = <<>>
    /\ Len(report.suggestions) = 1 /\ CallCount("generate_content") = 0

\* the clusters a report says the request formed (none when the report has
\* no cluster count)
ClustersFormed(r) ==
    IF "clusters_found" \in DOMAIN r.statistics THEN r.statistics.clusters_found ELSE 0

\* C22 (as claimed): a request calls the narrative backend at most
\* n_clusters + 2 times, n_clusters the clusters it formed, and each of its
\* prompts is issued once.
C22_BackendCallBound ==
    Analysed =>
        /\ CallCount("generate_content") <= ClustersFormed(report) + 2
        /\ CallCount("summarize_feedback") <= 1
        /\ CallCount("get_sentiment_breakdown") <= 1
        /\ CallCount("_extract_themes_with_ai") <= 1

\* C23: when get_feedback_data fails, the /analyze-feedback request answers
\* one 400 error and never calls get_structured_analysis, so it has no report.
C23_FetchFailureNoAnalysis ==
    (/\ pc = "done" /\ entry = "route"
     /\ response.request.is_json
     /\ response.request.spreadsheet_id # ""
     /\ response.request.fetch # "ok") =>
        /\ response.status = 400
        /\ response.error = "validation_error"
        /\ response.body = NoValue
        /\ report = NoValue
        /\ calls = <<"get_feedback_data">>

\* the source refused access while holding a non-empty batch
C23_Witness ==
    /\ pc = "done" /\ entry = "route"
    /\ response.request.fetch = "denied"
    /\ feedback_data # <<>>
    /\ response.status = 400

\* C24: under every interleaving of the concurrent requests the shared
\* service objects stay as start-up left them, and a finished request holds
\* the report get_structured_analysis gives for its own batch and its own
\* backend answers when it runs alone.
C24_RequestsIsolated ==
    /\ services = StartedServices
    /\ \A i \in DOMAIN handlers :
          handlers[i].pc = "done" =>
              handlers[i].report =
                  GetStructuredAnalysis(handlers[i].sheet, handlers[i].answers)

\* request 1 holds its report while request 2, serving another batch, is
\* between two of its calls
C24_Witness ==
    /\ handlers # <<>>
    /\ handlers[1].pc = "done" /\ handlers[1].report.success
    /\ handlers[2].pc = "estimated"
    /\ handlers[2].feedback_data # handlers[1].feedback_data

\* _extract_themes_dynamically has returned
ThemesExtracted == pc = "done" /\ entry = "none"

\* C25 (as claimed): the mapping theme extraction returns has unique labels
\* and non-negative integer scores, is ordered by descending score, and has
\* at most 10 entries, on the backend path and on the word-frequency path.
C25_ThemesWellFormed ==
    ThemesExtracted =>
        /\ \A i, j \in 1..Len(extracted_themes) :
              extracted_themes[i].name = extracted_themes[j].name => i = j
        /\ \A i \in 1..Len(extracted_themes) : extracted_themes[i].count \in Nat
        /\ \A i, j \in 1..Len(extracted_themes) :
              i < j => extracted_themes[i].count >= extracted_themes[j].count
        /\ Len(extracted_themes) <= 10

\* the positions a..b of text t lie on one line
OneLine(t, a, b) == \A m \in a..b : t[m].k # "\n"

\* text t has a line with exactly one colon and a number after the colon
HasThemeLine(t) ==
    \E c, d \in 1..Len(t) :
        /\ c < d /\ t[c].k = ":" /\ t[d].k = "num" /\ OneLine(t, c, d)
        /\ \A e \in 1..Len(t) :
              (e # c /\ t[e].k = ":") => ~OneLine(t, MinOf(c, e), MaxOf(c, e))

\* C29: the word-frequency extractor is called exactly when the backend-
\* based extraction yields an empty mapping, and then its mapping is the
\* result; a non-empty backend-based mapping is returned unchanged; on a
\* batch of strings the backend-based mapping is empty exactly when the
\* backend raised, answered empty text, or answered no line with one colon
\* and a number after it; an extractor that raises (the backend call, or the
\* join of a batch holding a non-string) yields the empty mapping.
C29_FallbackWhenBackendEmpty ==
    ThemesExtracted =>
        \E ai \in {ExtractThemesWithAI(feedback_data, backend.themes)} :
            /\ ("_extract_themes_simple_nlp" \in Range(calls)) <=> (ai = <<>>)
            /\ ai # <<>> => extracted_themes = ai
            /\ ai = <<>> => extracted_themes = ExtractThemesSimpleNLP(feedback_data)
            /\ ~JoinRaises(feedback_data) =>
                  ((ai = <<>>) <=>
                      \/ backend.themes.kind = "raise"
                      \/ backend.themes.kind = "empty"
                      \/ backend.themes.kind = "text" /\ ~HasThemeLine(backend.themes.text))
            /\ backend.themes.kind = "raise" => ai = <<>>
            /\ JoinRaises(feedback_data) => extracted_themes = <<>>

\* the backend answered lines of which none qualifies, and the word-frequency
\* extractor supplied the themes
C29_Witness ==
    /\ ThemesExtracted
    /\ backend.themes.kind = "text" /\ ~HasThemeLine(backend.themes.text)
    /\ \E i \in 1..Len(backend.themes.text) : backend.themes.text[i].k = ":"
    /\ extracted_themes # <<>>
    /\ "_extract_themes_simple_nlp" \in Range(calls)

\* the patterns of lines 165-170 that match somewhere in the text
MatchingPatterns == {p \in Patterns : PatternMatches(text, sentiment, p) # {}}

\* C26: the result is the number of the leftmost match of the first of the
\* six patterns, in their fixed order, that matches anywhere in the text,
\* wherever the later patterns match; when none matches, the first
\* percentage in the window around the first occurrence of the label; and 0
\* when the window holds none or the label does not occur.
C26_FirstPatternInOrder ==
    (percentage # NoValue /\ text # NonString) =>
        IF MatchingPatterns # {}
        THEN percentage.n =
                 LeftmostValue(PatternMatches(text, sentiment, Min(MatchingPatterns)))
        ELSE IF (\E i \in 1..Len(text) : text[i].k = sentiment)
                    /\ WindowMatches(text, sentiment) # {}
        THEN percentage.n = LeftmostValue(WindowMatches(text, sentiment))
        ELSE percentage.n = 0

\* "65% Positive: 250%": the first pattern matches after the place where the
\* fifth matches, and its number is the result
C26_Witness ==
    /\ percentage # NoValue /\ text # NonString
    /\ {1, 5} \subseteq MatchingPatterns
    /\ \E a \in PatternMatches(text, sentiment, 5) :
          \A b \in PatternMatches(text, sentiment, 1) : a[1] < b[1] /\ a[2] # b[2]
    /\ percentage.n = 250

\* C28 (as claimed): in every report each of the three counts lies between
\* 0 and total_responses and their sum does not exceed total_responses.
C28_CountsWithinTotal ==
    Analysed =>
        /\ report.statistics.positive_count \in 0..report.statistics.total_responses
        /\ report.statistics.negative_count \in 0..report.statistics.total_responses
        /\ report.statistics.neutral_count \in 0..report.statistics.total_responses
        /\ report.statistics.positive_count + report.statistics.negative_count
              + report.statistics.neutral_count <= report.statistics.total_responses

====
